---- MODULE Spec2Model ----
(***************************************************************************)
(* A model of boat_and_rod/browser.py: the command dispatcher, the CDP     *)
(* helpers (cdp_http, cdp_send), extension discovery and the commands.     *)
(* One command runs at a time; the browser, the user and the file system   *)
(* are the environment.                                                    *)
(*                                                                         *)
(* Representation.  A URL is the sequence of its "/"-separated segments    *)
(* (what url.split("/") returns), so "chrome-extension://ID/x" is          *)
(* <<"chrome-extension:", "", ID, "x">>.  A text file is a sequence of     *)
(* tokens (identifiers and "\n").  None is the string "None".              *)
(***************************************************************************)
EXTENDS Integers, Sequences, FiniteSets, TLC

\* ------------------------------------------------------------------ bounds

\* Largest "id" the browser puts on a message (0: the message has no id).
MaxMsgId == 2
\* Longest targetInfos list the browser answers Target.getTargets with.
MaxTargets == 2
\* Process ids the operating system hands out.
MaxPid == 1

\* --------------------------------------------------------------- constants

CWS_EXT_ID == "ecabifbgmdmgdllomnfinbmaellmclnh"

CWS_URL ==
  <<"https:", "", "chromewebstore.google.com", "detail", "reader-view", CWS_EXT_ID>>

BUILTIN_EXT_IDS ==
  { "ghbmnnjooekpmoecnnnilnnbdlolhkhi",
    "nmmhkkegccagdldgiimedpiccmgmieda",
    "nkeimhogjdpnpccoofpliimaahmaaome",
    "fignfifoniblkonapihmkfakmlgkbkcf",
    "ahfgeienlihckogmohjhadlkjgocpleb",
    "mhjfbmdgcfjbbpaeojofohoefgiehjai" }

\* for _ in range(30)
PollLimit == 30

\* msg = {"id": 1, ...}
RequestId == 1

COMMANDS ==
  [ start |-> 0, setup |-> 0, stop |-> 0, status |-> 0, open |-> 1, js |-> 1,
    screenshot |-> -1, click |-> 1, wait |-> -1, push |-> 0, import |-> 0 ]

\* ------------------------------------------------------------ input domains

None == "None"
OtherExtId == "abcdefghijklmnopabcdefghijklmnop"
BlankUrl == <<"about:blank">>
NoPage == <<>>
NoFile == <<"ENOENT">>

ExtUrl(id, tail) == <<"chrome-extension:", "", id>> \o tail
ProbeUrl == ExtUrl(CWS_EXT_ID, <<"data", "reader", "index.html">>)
OptionsUrl(id) == ExtUrl(id, <<"data", "options", "index.html">>)

\* URLs the browser reports for its targets.
TargetUrls ==
  { ExtUrl("ghbmnnjooekpmoecnnnilnnbdlolhkhi", <<"index.html">>),
    ExtUrl(OtherExtId, <<"background.js">>),
    <<"chrome-extension:", "", "">>,
    <<"https:", "", "example.com", "">> }

TargetLists == UNION { [1..n -> TargetUrls] : n \in 0..MaxTargets }

\* Contents of ~/.reader-browser/.extension-id found at start-up.
ExtIdFiles ==
  { NoFile, <<"mhjfbmdgcfjbbpaeojofohoefgiehjai", "\n">>, <<OtherExtId, "\n">> }

\* Command-line words: the commands, an unknown one and the help flag.
CmdNames == DOMAIN COMMANDS \cup {"frobnicate", "--help"}

\* argv[2:] joined: absent (<<>>) or one argument, as URL segments.
Args == { <<>>, <<"example.com">>, <<"https:", "", "example.com">>, <<"1.5">> }

\* The arguments main hands to command c (a command without parameters
\* never sees argv[2:]).
ArgsFor(c) == IF c \in DOMAIN COMMANDS /\ COMMANDS[c] # 0 THEN Args ELSE {<<>>}

EvalValues == {"", "OK", "clicked", "Reader View", "Error"}

\* A settings file is missing, is not JSON, or is JSON.
FileStates == {"missing", "invalid", "valid"}

NoSettings ==
  [read |-> FALSE, css |-> FALSE, sidebar |-> FALSE, action |-> "missing",
   prefs |-> "missing"]

VARIABLES
  chrome,        \* "off" | "starting" | "up": the Chrome process of the profile
  chromePid,     \* its pid, 0 when off
  page,          \* URL of the first page target, NoPage when there is none
  stateFile,     \* STATE_FILE: 0 when absent, else the saved pid
  extIdFile,     \* EXT_ID_FILE: NoFile or its tokens
  cmd,           \* argv[1] of the running (or last) command
  arg,           \* argv[2:]
  pc,            \* position of the program; "idle" between runs
  proc,          \* cmd_start: pid of the Popen'd process, 0 before
  polls,         \* cmd_start: polls of the loop that found no answer
  ext_id,        \* local ext_id of the command
  settings,      \* cmd_push / cmd_import: what the settings files held
  call,          \* cdp_send: ws_url target, method, params
  cret,          \* cdp_send: where it returns to
  resp,          \* cdp_send: its result
  wsOpen,        \* WebSocket connections open
  wsSent,        \* requests sent on the connection of this cdp_send
  dropped,       \* id of the message this cdp_send dropped last, -1 before
  skippedMatch,  \* a dropped message carried the request's id
  dret,          \* discover_ext_id: where it returns to
  probed,        \* discover_ext_id: the probe navigation was answered without error
  pageAtReturn,  \* page when discover_ext_id last returned
  scanned,       \* the targetInfos in which discover_ext_id just found an ID
  exitStatus,    \* exit status of the last run, -1 before the first ends
  out,           \* last line printed
  sentLog,       \* requests sent in this run
  wsOpens,       \* connections opened in this run
  wrote,         \* files written in this run
  reported,      \* failure messages printed in this run
  swallowed,     \* an exception was caught and the run went on
  launches,      \* Chrome processes started in this run
  killed         \* cmd_start killed the process it launched

envV == <<chrome, chromePid, page>>
fsV == <<stateFile, extIdFile>>
argV == <<cmd, arg>>
locV == <<proc, polls, ext_id, settings>>
cdpV == <<call, cret, resp, wsOpen, wsSent, dropped, skippedMatch>>
discV == <<dret, probed, pageAtReturn>>
discAll == <<discV, scanned>>
exitV == <<exitStatus, out>>
runV == <<sentLog, wsOpens, wrote, swallowed, launches, killed>>
histV == <<sentLog, wsOpens, wrote, reported, swallowed, launches, killed>>

vars == <<envV, fsV, argV, pc, locV, cdpV, discAll, exitV, histV>>

\* ----------------------------------------------------------------- helpers

Falsy(x) == x \in {None, ""}

NoResp == [kind |-> "none"]
Raised == [kind |-> "raise"]
Returned(m) == [kind |-> "ok", msg |-> m]

NoScan == [found |-> FALSE, targets |-> <<>>]
NoCall == [target |-> "none", method |-> "", arg |-> <<>>]

BaseMsg(i) ==
  [ id |-> i, errorText |-> FALSE, exception |-> FALSE, value |-> "",
    data |-> "", targetInfos |-> <<>> ]

MsgIds == 0..MaxMsgId

\* What the browser may put on the connection while `method` is pending.
Messages(method) ==
  CASE method = "Page.navigate" ->
         { [BaseMsg(i) EXCEPT !.errorText = e] : i \in MsgIds, e \in BOOLEAN }
    [] method = "Runtime.evaluate" ->
         { [BaseMsg(i) EXCEPT !.value = v] : i \in MsgIds, v \in EvalValues }
           \cup { [BaseMsg(i) EXCEPT !.exception = TRUE] : i \in MsgIds }
    [] method = "Page.captureScreenshot" ->
         { [BaseMsg(i) EXCEPT !.data = d] : i \in MsgIds, d \in {"", "iVBORw0KGgo="} }
    [] OTHER ->
         { [BaseMsg(i) EXCEPT !.targetInfos = t] : i \in MsgIds, t \in TargetLists }

\* cdp_http("/json/version") answered (get_browser_ws() is truthy).
get_browser_ws == chrome = "up"

\* get_page_ws(): the first target of type "page" has a WebSocket URL.
get_page_ws == chrome = "up" /\ page # NoPage

\* The target behind a ws_url accepts connections.
Reachable(target) ==
  IF target = "browser" THEN chrome = "up" ELSE chrome = "up" /\ page # NoPage

\* text.strip(): drop the whitespace tokens at both ends; what is left is
\* one identifier or nothing.
RECURSIVE StripLeft(_)
StripLeft(s) == IF s # <<>> /\ Head(s) = "\n" THEN StripLeft(Tail(s)) ELSE s

RECURSIVE StripRight(_)
StripRight(s) ==
  IF s # <<>> /\ s[Len(s)] = "\n" THEN StripRight(SubSeq(s, 1, Len(s) - 1)) ELSE s

Strip(s) == LET t == StripRight(StripLeft(s)) IN IF t = <<>> THEN "" ELSE t[1]

\* write_text(ext_id)
Text(id) == IF id = "" THEN <<>> ELSE <<id>>

\* The test of line 163 / 181.
NotBuiltinAny(id) == TRUE
NotBuiltin(id) == id \notin BUILTIN_EXT_IDS

get_ext_id ==
  IF extIdFile # NoFile
  THEN LET id == Strip(extIdFile)
       IN IF id # "" /\ NotBuiltin(id) THEN id ELSE None
  ELSE None

\* url.startswith("chrome-extension://")
IsExtensionUrl(url) == Len(url) >= 3 /\ url[1] = "chrome-extension:" /\ url[2] = ""

\* The loop of lines 177-184: the first extension target that passes the
\* test, None when the list is exhausted.
RECURSIVE ScanTargets(_)
ScanTargets(ts) ==
  IF ts = <<>> THEN None
  ELSE LET url == Head(ts)
       IN IF IsExtensionUrl(url) /\ NotBuiltin(url[3]) THEN url[3]
          ELSE ScanTargets(Tail(ts))

\* "error" in title.lower()
TitleHasError(title) == title \in {"Error"}

\* url.startswith(("http", "chrome", "about", "file"))
HasScheme(url) ==
  url # <<>> /\ url[1] \in {"http:", "https:", "chrome:", "chrome-extension:",
                            "about:blank", "file:"}

NormalizeUrl(url) == IF HasScheme(url) THEN url ELSE <<"https:", "">> \o url

\* float(seconds) succeeds
IsFloat(s) == s \in {"1.5", "2"}

\* ws.close() in the finally clause
ws_close_leak(n) == n
ws_close(n) == n - 1

\* resp.get("id") == 1
IsResponseAnyId(m) == m.id # 0
IsResponse(m) == m.id = RequestId

\* sys.exit(status) or the end of main
Exit(status, line) ==
  /\ pc' = "idle"
  /\ exitStatus' = status
  /\ out' = line

\* An uncaught exception: the interpreter prints the traceback, status 1.
Uncaught == Exit(1, "Traceback")

\* print of a failure message
Report(line) == reported' = reported \cup {line}

\* ------------------------------------------------------------------- Init

Init ==
  /\ chrome = "off" /\ chromePid = 0 /\ page = NoPage
  /\ stateFile = 0
  /\ extIdFile \in ExtIdFiles
  /\ cmd = "" /\ arg = <<>> /\ pc = "idle"
  /\ proc = 0 /\ polls = 0 /\ ext_id = None
  /\ settings = NoSettings
  /\ call = NoCall /\ cret = "" /\ resp = NoResp
  /\ wsOpen = 0 /\ wsSent = 0 /\ dropped = -1 /\ skippedMatch = FALSE
  /\ dret = "" /\ probed = FALSE /\ pageAtReturn = NoPage /\ scanned = NoScan
  /\ exitStatus = -1 /\ out = ""
  /\ sentLog = <<>> /\ wsOpens = 0 /\ wrote = {} /\ reported = {}
  /\ swallowed = FALSE /\ launches = 0 /\ killed = FALSE

\* ---------------------------------------------------------- step fragments
\* Every program step ends in exactly one of these; each fixes pc, the exit
\* status, the printed line, the reported failures and the cdp_send frame.

ResetCdp ==
  /\ call' = NoCall /\ cret' = "" /\ resp' = NoResp
  /\ wsSent' = 0 /\ dropped' = -1 /\ skippedMatch' = FALSE
  /\ UNCHANGED wsOpen

\* The frame is gone, and so is the note of the last scan.
Leave == ResetCdp /\ scanned' = NoScan

\* The command ends without a failure message.
Stop(status, line) == Exit(status, line) /\ UNCHANGED reported /\ Leave

\* The command prints a failure message and ends.
Fail(status, line) == Exit(status, line) /\ Report(line) /\ Leave

\* An exception nobody catches ends the command.
Crash == Uncaught /\ UNCHANGED reported /\ Leave

\* The command goes on to label l.
Goto(l) == pc' = l /\ UNCHANGED <<exitV, reported>> /\ Leave

\* cdp_send(ws_url, method, params), to return to label ret.
Send(target, method, params, ret) ==
  /\ call' = [target |-> target, method |-> method, arg |-> params]
  /\ cret' = ret
  /\ resp' = NoResp
  /\ wsSent' = 0 /\ dropped' = -1 /\ skippedMatch' = FALSE
  /\ pc' = "cdp_connect"
  /\ scanned' = NoScan
  /\ UNCHANGED <<wsOpen, exitV, reported>>

\* require_running() fails
NotRunning == Fail(1, "Chrome is not running. Use: python browser.py start")

\* require_page() fails
NoActivePage == Fail(1, "No active page found.")

\* require_running(): the program goes on iff this holds.
require_running_skip == TRUE
require_running == get_browser_ws

\* ---------------------------------------------------------------- cdp_send

\* websocket.create_connection(ws_url, timeout=10)
cdp_connect ==
  /\ pc = "cdp_connect"
  /\ \/ /\ Reachable(call.target)
        /\ wsOpen' = wsOpen + 1
        /\ wsOpens' = wsOpens + 1
        /\ pc' = "cdp_request"
        /\ UNCHANGED resp
     \/ /\ resp' = Raised
        /\ pc' = cret
        /\ UNCHANGED <<wsOpen, wsOpens>>
  /\ UNCHANGED <<envV, fsV, argV, locV, discAll, exitV>>
  /\ UNCHANGED <<call, cret, wsSent, dropped, skippedMatch>>
  /\ UNCHANGED <<sentLog, wrote, reported, swallowed, launches, killed>>

\* ws.send(json.dumps(msg)); a failure runs the finally clause
cdp_request ==
  /\ pc = "cdp_request"
  /\ \/ /\ wsSent' = wsSent + 1
        /\ sentLog' = Append(sentLog, [method |-> call.method, arg |-> call.arg])
        /\ pc' = "cdp_recv"
        /\ UNCHANGED <<resp, wsOpen>>
     \/ /\ resp' = Raised
        /\ wsOpen' = ws_close(wsOpen)
        /\ pc' = cret
        /\ UNCHANGED <<wsSent, sentLog>>
  /\ UNCHANGED <<envV, fsV, argV, locV, discAll, exitV>>
  /\ UNCHANGED <<call, cret, dropped, skippedMatch>>
  /\ UNCHANGED <<wsOpens, wrote, reported, swallowed, launches, killed>>

\* One turn of the while loop: resp = json.loads(ws.recv()), then the test
\* of the id.  A returned Page.navigate answer without errorText means the
\* page is now at the URL asked for.
cdp_recv ==
  /\ pc = "cdp_recv"
  /\ \/ \E m \in Messages(call.method) :
          /\ Reachable(call.target)
          /\ IF IsResponse(m)
             THEN /\ resp' = Returned(m)
                  /\ wsOpen' = ws_close(wsOpen)
                  /\ pc' = cret
                  /\ page' = IF call.method = "Page.navigate" /\ ~m.errorText
                             THEN call.arg ELSE page
                  /\ UNCHANGED <<dropped, skippedMatch>>
             ELSE /\ dropped' = m.id
                  /\ skippedMatch' = (skippedMatch \/ m.id = RequestId)
                  /\ UNCHANGED <<resp, wsOpen, pc, page>>
     \/ /\ resp' = Raised
        /\ wsOpen' = ws_close(wsOpen)
        /\ pc' = cret
        /\ UNCHANGED <<dropped, skippedMatch, page>>
  /\ UNCHANGED <<chrome, chromePid, fsV, argV, locV, discAll, exitV, histV>>
  /\ UNCHANGED <<call, cret, wsSent>>

\* ------------------------------------------------------------- environment

\* The launched Chrome finishes starting: the endpoint answers and the
\* about:blank tab of the command line is open.
chrome_ready ==
  /\ chrome = "starting"
  /\ chrome' = "up"
  /\ page' = BlankUrl
  /\ UNCHANGED <<chromePid, fsV, argV, pc, locV, cdpV, discAll, exitV, histV>>

\* The user closes the last tab.
user_closes_tab ==
  /\ chrome = "up" /\ page # NoPage
  /\ page' = NoPage
  /\ UNCHANGED <<chrome, chromePid, fsV, argV, pc, locV, cdpV, discAll, exitV, histV>>

\* -------------------------------------------------------------------- main

\* A new process starts with nothing reported.
Dispatch(c, a) ==
  IF c \in {"", "--help"}
  THEN Exit(0, "Usage") /\ reported' = {} /\ Leave
  ELSE IF c \notin DOMAIN COMMANDS
  THEN Exit(1, "Unknown command") /\ reported' = {"Unknown command"} /\ Leave
  ELSE IF COMMANDS[c] = 1 /\ a = <<>>
  THEN /\ Exit(1, "Usage: python browser.py")
       /\ reported' = {"Usage: python browser.py"}
       /\ Leave
  ELSE /\ pc' = c
       /\ exitStatus' = -1 /\ out' = ""
       /\ reported' = {}
       /\ Leave

\* One run of the program, its argv[1] drawn from cmds.
Run(cmds) ==
  /\ pc = "idle"
  /\ \E c \in cmds : \E a \in ArgsFor(c) :
       /\ cmd' = c
       /\ arg' = a
       /\ sentLog' = <<>> /\ wsOpens' = 0 /\ wrote' = {}
       /\ swallowed' = FALSE
       /\ launches' = 0 /\ killed' = FALSE
       /\ proc' = 0 /\ polls' = 0 /\ ext_id' = None
       /\ settings' = NoSettings
       /\ dret' = "" /\ probed' = FALSE /\ pageAtReturn' = NoPage
       /\ Dispatch(c, a)
  /\ UNCHANGED <<envV, fsV>>

main == Run(CmdNames \cup {""})

\* A run of start or of stop.
main_start_stop == Run({"start", "stop"})

\* --------------------------------------------------------- discover_ext_id

\* A call of discover_ext_id(), to return to label ret.
CallDiscover(ret) ==
  /\ dret' = ret
  /\ probed' = FALSE /\ pageAtReturn' = NoPage
  /\ Goto("discover")

\* return v
DiscReturn(v) ==
  /\ ext_id' = v
  /\ pageAtReturn' = page
  /\ Goto(dret)

\* return ext_id of line 184, out of the scan of the list ts
DiscReturnFound(v, ts) ==
  /\ ext_id' = v
  /\ pageAtReturn' = page
  /\ pc' = dret
  /\ scanned' = [found |-> TRUE, targets |-> ts]
  /\ UNCHANGED <<exitV, reported>>
  /\ ResetCdp

\* Lines 170-176: no endpoint, no discovery; else ask for the targets.
discover_ext_id ==
  /\ pc = "discover"
  /\ IF ~get_browser_ws
     THEN DiscReturn(None)
     ELSE /\ Send("browser", "Target.getTargets", <<>>, "disc_targets")
          /\ UNCHANGED <<ext_id, pageAtReturn>>
  /\ UNCHANGED <<envV, fsV, argV, proc, polls, settings, dret, probed, histV>>

\* Lines 177-193: scan the targets; an exception or an exhausted list leads
\* to the probe of the known ID.
disc_targets ==
  /\ pc = "disc_targets"
  /\ LET ts == IF resp.kind = "ok" THEN resp.msg.targetInfos ELSE <<>>
         found == ScanTargets(ts)
     IN /\ swallowed' = (swallowed \/ resp.kind = "raise")
        /\ IF found # None
           THEN /\ extIdFile' = Text(found)
                /\ wrote' = wrote \cup {"extension-id"}
                /\ DiscReturnFound(found, ts)
           ELSE /\ UNCHANGED <<extIdFile, wrote>>
                /\ IF get_page_ws
                   THEN /\ Send("page", "Page.navigate", ProbeUrl, "disc_probe")
                        /\ UNCHANGED <<ext_id, pageAtReturn>>
                   ELSE DiscReturn(None)
  /\ UNCHANGED <<envV, stateFile, argV, proc, polls, settings, dret, probed>>
  /\ UNCHANGED <<sentLog, wsOpens, launches, killed>>

\* Lines 193-199: the answer to the probe navigation.
disc_probe ==
  /\ pc = "disc_probe"
  /\ swallowed' = (swallowed \/ resp.kind = "raise")
  /\ IF resp.kind = "ok" /\ ~resp.msg.errorText
     THEN /\ probed' = TRUE
          /\ Send("page", "Runtime.evaluate", <<"document.title || ''">>, "disc_title")
          /\ UNCHANGED <<ext_id, pageAtReturn>>
     ELSE /\ UNCHANGED probed
          /\ DiscReturn(None)
  /\ UNCHANGED <<envV, fsV, argV, proc, polls, settings, dret>>
  /\ UNCHANGED <<sentLog, wsOpens, wrote, launches, killed>>

\* Lines 200-203: the title decides whether the extension is there.
disc_title ==
  /\ pc = "disc_title"
  /\ swallowed' = (swallowed \/ resp.kind = "raise")
  /\ LET title == IF resp.kind = "ok" THEN resp.msg.value ELSE ""
     IN IF resp.kind = "ok" /\ title # "" /\ ~TitleHasError(title)
        THEN /\ Send("page", "Page.navigate", BlankUrl, "disc_back")
             /\ UNCHANGED <<ext_id, pageAtReturn>>
        ELSE DiscReturn(None)
  /\ UNCHANGED <<envV, fsV, argV, proc, polls, settings, dret, probed>>
  /\ UNCHANGED <<sentLog, wsOpens, wrote, launches, killed>>

\* Lines 203-206: after the navigation back, cache and return the known ID.
disc_back ==
  /\ pc = "disc_back"
  /\ swallowed' = (swallowed \/ resp.kind = "raise")
  /\ IF resp.kind = "ok"
     THEN /\ extIdFile' = Text(CWS_EXT_ID)
          /\ wrote' = wrote \cup {"extension-id"}
          /\ DiscReturn(CWS_EXT_ID)
     ELSE /\ UNCHANGED <<extIdFile, wrote>>
          /\ DiscReturn(None)
  /\ UNCHANGED <<envV, stateFile, argV, proc, polls, settings, dret, probed>>
  /\ UNCHANGED <<sentLog, wsOpens, launches, killed>>

\* --------------------------------------------------------------- cmd_start

\* save_state(pid)
save_state(pid) == stateFile' = pid

\* Lines 216-243: Chrome answers already, or find_chrome() and Popen.
cmd_start ==
  /\ pc = "start"
  /\ IF get_browser_ws
     THEN /\ IF ~Falsy(get_ext_id)
             THEN /\ ext_id' = get_ext_id
                  /\ Stop(0, "Extension ID")
                  /\ UNCHANGED discV
             ELSE /\ CallDiscover("start_report")
                  /\ UNCHANGED ext_id
          /\ UNCHANGED <<envV, proc, launches>>
     ELSE /\ UNCHANGED <<ext_id, discV>>
          /\ \/ /\ Crash
                /\ UNCHANGED <<envV, proc, launches>>
             \/ \E pid \in 1..MaxPid :
                  /\ chrome' = "starting" /\ chromePid' = pid /\ page' = NoPage
                  /\ proc' = pid
                  /\ launches' = launches + 1
                  /\ Goto("start_poll")
  /\ UNCHANGED <<fsV, argV, polls, settings>>
  /\ UNCHANGED <<sentLog, wsOpens, wrote, swallowed, killed>>

\* range(30) has another turn after n turns
InRangeOffByOne(n) == n <= PollLimit
InRange(n) == n < PollLimit

\* One iteration of the loop of lines 246-258.  polls is the loop's own
\* counter: it is dropped when the return of line 257 is on its way.
start_poll ==
  /\ pc = "start_poll"
  /\ InRange(polls)
  /\ IF get_browser_ws
     THEN /\ save_state(proc)
          /\ wrote' = wrote \cup {"state.json"}
          /\ polls' = 0
          /\ CallDiscover("start_report")
     ELSE /\ polls' = polls + 1
          /\ UNCHANGED <<stateFile, wrote, discV>>
          /\ Goto("start_poll")
  /\ UNCHANGED <<envV, extIdFile, argV, proc, ext_id, settings>>
  /\ UNCHANGED <<sentLog, wsOpens, swallowed, launches, killed>>

\* Lines 260-262: the loop ran out.
start_timeout ==
  /\ pc = "start_poll"
  /\ ~InRange(polls)
  /\ killed' = TRUE
  /\ IF chromePid = proc
     THEN chrome' = "off" /\ chromePid' = 0 /\ page' = NoPage
     ELSE UNCHANGED envV
  /\ Fail(1, "ERROR: Chrome did not start in time.")
  /\ UNCHANGED <<fsV, argV, locV, discV>>
  /\ UNCHANGED <<sentLog, wsOpens, wrote, swallowed, launches>>

\* Lines 219-223 and 253-257: print what discovery gave.
start_report ==
  /\ pc = "start_report"
  /\ Stop(0, IF ~Falsy(ext_id) THEN "Extension ID" ELSE "Reader View not installed.")
  /\ UNCHANGED <<envV, fsV, argV, locV, discV>>
  /\ UNCHANGED <<sentLog, wsOpens, wrote, swallowed, launches, killed>>

\* ---------------------------------------------------------------- cmd_stop

\* What subprocess.run(["taskkill", ...]) can come to: the process tree is
\* killed, or taskkill cannot be run and the exception is caught at line 288.
TaskkillOutcomes == {"killed", "raised"}

cmd_stop ==
  /\ pc = "stop"
  /\ IF stateFile = 0
     THEN /\ Stop(0, "No saved state. Nothing to stop.")
          /\ UNCHANGED <<envV, stateFile, swallowed>>
     ELSE \E r \in TaskkillOutcomes :
            /\ IF r = "killed" /\ chromePid = stateFile
               THEN chrome' = "off" /\ chromePid' = 0 /\ page' = NoPage
               ELSE UNCHANGED envV
            /\ swallowed' = (swallowed \/ r = "raised")
            /\ IF r = "raised"
               THEN Fail(0, "Could not stop Chrome")
               ELSE Stop(0, "Chrome stopped")
            /\ stateFile' = 0
  /\ UNCHANGED <<extIdFile, argV, locV, discV>>
  /\ UNCHANGED <<sentLog, wsOpens, wrote, launches, killed>>

\* --------------------------------------------------------------- cmd_setup

cmd_setup ==
  /\ pc = "setup"
  /\ IF ~require_running THEN NotRunning
     ELSE IF ~get_page_ws THEN NoActivePage
     ELSE Send("page", "Page.navigate", CWS_URL, "setup_done")
  /\ UNCHANGED <<envV, fsV, argV, locV, discV>>
  /\ UNCHANGED <<sentLog, wsOpens, wrote, swallowed, launches, killed>>

setup_done ==
  /\ pc = "setup_done"
  /\ IF resp.kind = "raise" THEN Crash ELSE Stop(0, "Opened Chrome Web Store: Reader View")
  /\ UNCHANGED <<envV, fsV, argV, locV, discV, runV>>

\* -------------------------------------------------------------- cmd_status

\* Lines 295-309: with the endpoint up, the cached ID or discovery.
cmd_status ==
  /\ pc = "status"
  /\ IF get_browser_ws
     THEN IF ~Falsy(get_ext_id)
          THEN /\ ext_id' = get_ext_id
               /\ Goto("status_report")
               /\ UNCHANGED discV
          ELSE /\ CallDiscover("status_report")
               /\ UNCHANGED ext_id
     ELSE /\ ext_id' = get_ext_id
          /\ Stop(0, "Chrome is not running.")
          /\ UNCHANGED discV
  /\ UNCHANGED <<envV, fsV, argV, proc, polls, settings, runV>>

\* Lines 304-319: the extension lines, then the pages of get_all_targets().
status_report ==
  /\ pc = "status_report"
  /\ Stop(0, IF ~Falsy(ext_id) THEN "Open pages" ELSE "Reader View: NOT INSTALLED")
  /\ UNCHANGED <<envV, fsV, argV, locV, discV, runV>>

\* ---------------------------------------------------------------- cmd_open

cmd_open ==
  /\ pc = "open"
  /\ IF ~require_running THEN NotRunning
     ELSE IF ~get_page_ws THEN NoActivePage
     ELSE Send("page", "Page.navigate", NormalizeUrl(arg), "open_done")
  /\ UNCHANGED <<envV, fsV, argV, locV, discV>>
  /\ UNCHANGED <<sentLog, wsOpens, wrote, swallowed, launches, killed>>

\* Lines 333-337: a navigation error is printed and the function returns.
open_done ==
  /\ pc = "open_done"
  /\ IF resp.kind = "raise" THEN Crash
     ELSE IF resp.msg.errorText THEN Fail(0, "Navigation error")
     ELSE Stop(0, "Navigated to")
  /\ UNCHANGED <<envV, fsV, argV, locV, discV, runV>>

\* ------------------------------------------------------------------ cmd_js

cmd_js ==
  /\ pc = "js"
  /\ IF ~require_running THEN NotRunning
     ELSE IF ~get_page_ws THEN NoActivePage
     ELSE Send("page", "Runtime.evaluate", arg, "js_done")
  /\ UNCHANGED <<envV, fsV, argV, locV, discV>>
  /\ UNCHANGED <<sentLog, wsOpens, wrote, swallowed, launches, killed>>

js_done ==
  /\ pc = "js_done"
  /\ IF resp.kind = "raise" THEN Crash
     ELSE IF resp.msg.exception THEN Fail(1, "JS Error")
     ELSE Stop(0, resp.msg.value)
  /\ UNCHANGED <<envV, fsV, argV, locV, discV, runV>>

\* ---------------------------------------------------------- cmd_screenshot

cmd_screenshot ==
  /\ pc = "screenshot"
  /\ IF ~require_running THEN NotRunning
     ELSE IF ~get_page_ws THEN NoActivePage
     ELSE Send("page", "Page.captureScreenshot", <<"png">>, "screenshot_done")
  /\ UNCHANGED <<envV, fsV, argV, locV, discV>>
  /\ UNCHANGED <<sentLog, wsOpens, wrote, swallowed, launches, killed>>

screenshot_done ==
  /\ pc = "screenshot_done"
  /\ IF resp.kind = "raise"
     THEN Crash /\ UNCHANGED wrote
     ELSE IF resp.msg.data # ""
     THEN /\ wrote' = wrote \cup {"screenshot"}
          /\ Stop(0, "Screenshot saved")
     ELSE /\ Fail(1, "Failed to capture screenshot.")
          /\ UNCHANGED wrote
  /\ UNCHANGED <<envV, fsV, argV, locV, discV>>
  /\ UNCHANGED <<sentLog, wsOpens, swallowed, launches, killed>>

\* --------------------------------------------------------------- cmd_click

cmd_click ==
  /\ pc = "click"
  /\ IF ~require_running THEN NotRunning
     ELSE IF ~get_page_ws THEN NoActivePage
     ELSE Send("page", "Runtime.evaluate", <<"querySelector">> \o arg, "click_done")
  /\ UNCHANGED <<envV, fsV, argV, locV, discV>>
  /\ UNCHANGED <<sentLog, wsOpens, wrote, swallowed, launches, killed>>

click_done ==
  /\ pc = "click_done"
  /\ IF resp.kind = "raise" THEN Crash
     ELSE IF resp.msg.value = "clicked" THEN Stop(0, "Clicked")
     ELSE Fail(1, "Element not found")
  /\ UNCHANGED <<envV, fsV, argV, locV, discV, runV>>

\* ---------------------------------------------------------------- cmd_wait

cmd_wait ==
  /\ pc = "wait"
  /\ IF ~require_running THEN NotRunning
     ELSE IF arg # <<>> /\ ~IsFloat(arg[1]) THEN Crash
     ELSE Stop(0, "Waited")
  /\ UNCHANGED <<envV, fsV, argV, locV, discV>>
  /\ UNCHANGED <<sentLog, wsOpens, wrote, swallowed, launches, killed>>

\* ---------------------------------------------------------------- cmd_push

\* payload of lines 442-446: storage key |-> the settings file it holds
PushPayload ==
  ("user-css" :> "reader-view.css") @@ ("top-css" :> "frame-sidebar.css")
    @@ ("user-action" :> "user-action.json")

\* json.loads(user_action) does not raise
ParsesAnything(a) == a # "missing"
Parses(a) == a = "valid"

\* The expression of lines 458-466 / 516-524.
StorageSet(data) == <<"chrome.storage.local.set", data>>

\* Lines 412-415: require_running, then the cached ID or discovery.
cmd_push ==
  /\ pc = "push"
  /\ IF ~require_running
     THEN NotRunning /\ UNCHANGED <<ext_id, discV>>
     ELSE IF ~Falsy(get_ext_id)
     THEN /\ ext_id' = get_ext_id
          /\ Goto("push_files")
          /\ UNCHANGED discV
     ELSE /\ CallDiscover("push_files")
          /\ UNCHANGED ext_id
  /\ UNCHANGED <<envV, fsV, argV, proc, polls, settings>>
  /\ UNCHANGED <<sentLog, wsOpens, wrote, swallowed, launches, killed>>

\* Lines 416-452: the ID, the three files, the JSON, the page; then the
\* navigation to the options page.
push_files ==
  /\ pc = "push_files"
  /\ IF Falsy(ext_id)
     THEN /\ Fail(1, "Extension ID unknown.")
          /\ UNCHANGED settings
     ELSE \E c \in BOOLEAN, s \in BOOLEAN, a \in FileStates :
            /\ settings' = [read |-> TRUE, css |-> c, sidebar |-> s, action |-> a,
                            prefs |-> "missing"]
            /\ IF ~c \/ ~s \/ a = "missing" THEN Fail(1, "Missing")
               ELSE IF ~Parses(a) THEN Fail(1, "Invalid JSON in user-action.json")
               ELSE IF ~get_page_ws THEN NoActivePage
               ELSE Send("page", "Page.navigate", OptionsUrl(ext_id), "push_nav")
  /\ UNCHANGED <<envV, fsV, argV, proc, polls, ext_id, discV, runV>>

\* Lines 453-471: after the navigation, the storage write.
push_nav ==
  /\ pc = "push_nav"
  /\ IF resp.kind = "raise" THEN Crash
     ELSE Send("page", "Runtime.evaluate", StorageSet(PushPayload), "push_result")
  /\ UNCHANGED <<envV, fsV, argV, locV, discV, runV>>

\* Lines 473-486 (and 531-541): what the storage write answered.
push_result ==
  /\ pc \in {"push_result", "import_result"}
  /\ IF resp.kind = "raise" THEN Crash
     ELSE IF resp.msg.exception THEN Fail(1, "Error")
     ELSE IF resp.msg.value = "OK" THEN Stop(0, "Settings saved")
     ELSE Fail(0, "Unexpected result")
  /\ UNCHANGED <<envV, fsV, argV, locV, discV, runV>>

\* -------------------------------------------------------------- cmd_import

cmd_import ==
  /\ pc = "import"
  /\ IF ~require_running
     THEN NotRunning /\ UNCHANGED <<ext_id, discV>>
     ELSE IF ~Falsy(get_ext_id)
     THEN /\ ext_id' = get_ext_id
          /\ Goto("import_files")
          /\ UNCHANGED discV
     ELSE /\ CallDiscover("import_files")
          /\ UNCHANGED ext_id
  /\ UNCHANGED <<envV, fsV, argV, proc, polls, settings>>
  /\ UNCHANGED <<sentLog, wsOpens, wrote, swallowed, launches, killed>>

\* Lines 493-509: json.loads of the preferences is not guarded.
import_files ==
  /\ pc = "import_files"
  /\ IF Falsy(ext_id)
     THEN /\ Fail(1, "Extension ID unknown.")
          /\ UNCHANGED settings
     ELSE \E p \in FileStates :
            /\ settings' = [NoSettings EXCEPT !.read = TRUE, !.prefs = p]
            /\ IF p = "missing" THEN Fail(1, "Missing")
               ELSE IF p = "invalid" THEN Crash
               ELSE IF ~get_page_ws THEN NoActivePage
               ELSE Send("page", "Page.navigate", OptionsUrl(ext_id), "import_nav")
  /\ UNCHANGED <<envV, fsV, argV, proc, polls, ext_id, discV, runV>>

import_nav ==
  /\ pc = "import_nav"
  /\ IF resp.kind = "raise" THEN Crash
     ELSE Send("page", "Runtime.evaluate", StorageSet("reader-view-preferences.json"),
               "import_result")
  /\ UNCHANGED <<envV, fsV, argV, locV, discV, runV>>

\* ----------------------------------------------------------- specification

\* A step of the running command.
Step ==
  \/ cdp_connect \/ cdp_request \/ cdp_recv
  \/ discover_ext_id \/ disc_targets \/ disc_probe \/ disc_title \/ disc_back
  \/ cmd_start \/ start_poll \/ start_timeout \/ start_report
  \/ cmd_stop
  \/ cmd_setup \/ setup_done
  \/ cmd_status \/ status_report
  \/ cmd_open \/ open_done
  \/ cmd_js \/ js_done
  \/ cmd_screenshot \/ screenshot_done
  \/ cmd_click \/ click_done
  \/ cmd_wait
  \/ cmd_push \/ push_files \/ push_nav \/ push_result
  \/ cmd_import \/ import_files \/ import_nav

Next == main \/ Step \/ chrome_ready \/ user_closes_tab

Spec == Init /\ [][Next]_vars

\* The interpreter keeps running the command it was given: a step that can
\* be taken is taken.  Nothing obliges the user to type a command or the
\* browser to answer.
FairSpec == Spec /\ WF_vars(Step)

\* The program run only as start and stop.
StartStopStep ==
  \/ cdp_connect \/ cdp_request \/ cdp_recv
  \/ discover_ext_id \/ disc_targets \/ disc_probe \/ disc_title \/ disc_back
  \/ cmd_start \/ start_poll \/ start_timeout \/ start_report
  \/ cmd_stop

StartStopNext == main_start_stop \/ StartStopStep \/ chrome_ready \/ user_closes_tab

StartStopSpec == Init /\ [][StartStopNext]_vars /\ WF_vars(StartStopStep)

\* ------------------------------------------------------------------ claims

\* C1: cdp_send returns only a message whose id is the request's id, and it
\* is the first such message on the connection: no message it dropped before
\* carried that id (the dropped ones had no id or another one).
C1_ReturnsFirstMatchingResponse ==
  /\ resp.kind = "ok" => resp.msg.id = RequestId
  /\ ~skippedMatch
  /\ dropped # RequestId

\* cdp_send returned after dropping another request's response.
C1_Witness == resp.kind = "ok" /\ dropped > RequestId /\ pc = cret

\* C2: start launches Chrome at most once and, having launched it, polls at
\* most PollLimit times; the loop always ends: at the first poll that is
\* answered, with the pid of the launched process saved, or after the
\* PollLimit-th silent poll, with the process killed, status 1 and no state
\* file written; a run that launched Chrome ends in one of the two ways.
C2_PollStep ==
  (pc = "start_poll" /\ (pc' # pc \/ polls' # polls)) =>
     IF polls < PollLimit
     THEN IF get_browser_ws
          THEN stateFile' = proc /\ pc' = "discover" /\ ~killed'
          ELSE polls' = polls + 1 /\ pc' = pc /\ stateFile' = stateFile
     ELSE /\ killed' /\ pc' = "idle" /\ exitStatus' = 1
          /\ stateFile' = stateFile /\ chrome' = "off"

C2_PollLoopBounded ==
  /\ [](/\ polls <= PollLimit
        /\ launches <= 1
        /\ pc = "start_poll" =>
             launches = 1 /\ proc # 0 /\ "state.json" \notin wrote /\ ~killed
        /\ killed =>
             /\ pc = "idle" /\ exitStatus = 1 /\ polls = PollLimit
             /\ "state.json" \notin wrote /\ wsOpens = 0
        /\ "state.json" \in wrote => stateFile = proc /\ launches = 1 /\ ~killed
        /\ (pc = "idle" /\ launches = 1) => ("state.json" \in wrote \/ killed))
  /\ [][C2_PollStep]_vars
  /\ (pc = "start_poll") ~> (pc # "start_poll")

\* start gave up after the last poll and killed what it launched.
C2_Witness ==
  /\ cmd = "start" /\ pc = "idle" /\ killed /\ polls = PollLimit
  /\ exitStatus = 1 /\ chrome = "off" /\ stateFile = 0

\* The commands that call require_running() first.
RequireCmds == {"setup", "open", "js", "screenshot", "click", "wait", "push", "import"}

\* C3: a step of setup, open, js, screenshot, click, wait, push or import
\* taken at its beginning while the endpoint is silent prints the not-running
\* message and exits with status 1; it opens no connection, sends no request
\* and writes no file.
C3_NotRunningExits ==
  [][(pc \in RequireCmds /\ ~get_browser_ws /\ pc' # pc) =>
       /\ pc' = "idle"
       /\ exitStatus' = 1
       /\ out' = "Chrome is not running. Use: python browser.py start"
       /\ UNCHANGED <<wsOpen, wsOpens, sentLog, wrote, stateFile, extIdFile>>]_vars

\* push was run without a browser.
C3_Witness ==
  /\ cmd = "push" /\ pc = "idle" /\ chrome = "off" /\ exitStatus = 1
  /\ out = "Chrome is not running. Use: python browser.py start"
  /\ wsOpens = 0 /\ sentLog = <<>>

\* C4: once a stop command has completed, the Chrome process that start
\* launched is not running and the state file does not exist.
C4_StopStopsChrome ==
  (cmd = "stop" /\ pc = "idle") => (chrome = "off" /\ stateFile = 0)

\* The failure messages of the commands: Chrome not running, no active page,
\* Chrome not started in time, a missing settings file, invalid JSON, a
\* navigation error, a JS exception, an element not found, a failed
\* screenshot, an unexpected result of the storage write, an unknown command
\* and a missing argument.
FailureMessages ==
  { "Chrome is not running. Use: python browser.py start", "No active page found.",
    "ERROR: Chrome did not start in time.", "Missing",
    "Invalid JSON in user-action.json", "Navigation error", "JS Error", "Error",
    "Element not found", "Failed to capture screenshot.", "Unexpected result",
    "Unknown command", "Usage: python browser.py" }

\* C5: a run that printed one of the failure messages ends with a non-zero
\* status.
C5_FailuresExitNonZero ==
  (pc = "idle" /\ reported \cap FailureMessages # {}) => exitStatus >= 1

\* C6: at most one connection is open; outside cdp_send none is; a cdp_send
\* sends at most one request on its connection, and exactly one when it
\* returns a response.
C6_OneConnection ==
  /\ wsOpen <= 1
  /\ pc \notin {"cdp_request", "cdp_recv"} => wsOpen = 0
  /\ pc \in {"cdp_request", "cdp_recv"} => wsOpen = 1
  /\ wsSent <= 1
  /\ pc = "cdp_recv" => wsSent = 1
  /\ resp.kind = "ok" => wsSent = 1

\* cdp_send raised after its request was sent, and the connection is closed.
C6_Witness == resp.kind = "raise" /\ pc = cret /\ wsSent = 1 /\ wsOpen = 0

\* A chrome-extension:// URL whose ID is not built in.
Candidate(url) ==
  /\ Len(url) >= 3 /\ url[1] = "chrome-extension:" /\ url[2] = ""
  /\ url[3] \notin BUILTIN_EXT_IDS

\* C7: neither get_ext_id nor discover_ext_id gives a built-in ID, none is
\* written to the cached-ID file, and the ID found among the targets is that
\* of the first chrome-extension:// target whose ID is not built in.
C7_BuiltinIdsSkipped ==
  /\ get_ext_id \notin BUILTIN_EXT_IDS
  /\ ext_id \notin BUILTIN_EXT_IDS
  /\ "extension-id" \in wrote =>
       \A i \in DOMAIN extIdFile : extIdFile[i] \notin BUILTIN_EXT_IDS
  /\ scanned.found =>
       \E i \in DOMAIN scanned.targets :
         /\ Candidate(scanned.targets[i])
         /\ \A j \in 1..(i - 1) : ~Candidate(scanned.targets[j])
         /\ ext_id = scanned.targets[i][3]
         /\ extIdFile = IF ext_id = "" THEN <<>> ELSE <<ext_id>>

\* The scan passed over a built-in extension and returned the next one.
C7_Witness ==
  /\ scanned.found /\ Len(scanned.targets) = 2
  /\ scanned.targets[1][1] = "chrome-extension:"
  /\ scanned.targets[1][3] \in BUILTIN_EXT_IDS
  /\ ext_id = OtherExtId

\* C8: when the probe has taken the page to the reader page of the known
\* extension, the page is not there any more when discover_ext_id returns.
C8_ProbeNavigatesBack == probed => pageAtReturn # ProbeUrl

\* The request that writes the settings of push was sent in this run.
SetIssued ==
  \E i \in DOMAIN sentLog :
    /\ sentLog[i].method = "Runtime.evaluate"
    /\ sentLog[i].arg[1] = "chrome.storage.local.set"

\* The options page was asked for in this run.
OptionsAsked ==
  \E i \in DOMAIN sentLog :
    /\ sentLog[i].method = "Page.navigate"
    /\ Len(sentLog[i].arg) = 6 /\ sentLog[i].arg[5] = "options"

\* What push requires before it touches the browser.
PushValid ==
  /\ ext_id \notin {None, ""}
  /\ settings.read /\ settings.css /\ settings.sidebar /\ settings.action = "valid"

\* C9: push asks for the options page and sends the storage write only with
\* an extension ID, the three files present and user-action.json valid JSON;
\* otherwise it ends with status 1 and neither was sent; the payload written
\* has exactly the keys user-css, top-css and user-action.
C9_PushValidates ==
  cmd = "push" =>
    /\ (OptionsAsked \/ SetIssued) => PushValid
    /\ (pc = "idle" /\ ~PushValid) => exitStatus = 1
    /\ \A i \in DOMAIN sentLog :
         (sentLog[i].method = "Runtime.evaluate"
            /\ sentLog[i].arg[1] = "chrome.storage.local.set") =>
           DOMAIN sentLog[i].arg[2] = {"user-css", "top-css", "user-action"}

\* push went through and the settings were saved.
C9_Witness ==
  /\ cmd = "push" /\ pc = "idle" /\ exitStatus = 0 /\ out = "Settings saved"
  /\ SetIssued /\ PushValid

\* C10: a cdp_send that waits for its response eventually returns or raises.
C10_CdpSendTerminates == (pc = "cdp_recv") ~> (pc # "cdp_recv")
====
